---- MODULE Spec2Model ----
(***************************************************************************)
(* Model of app/src/AppContext.jsx: the query-string codec, the three      *)
(* dataset loaders and the two effects that keep the view parameters and   *)
(* the browser location in step.                                           *)
(*                                                                         *)
(* A JavaScript string is a sequence of one-character strings.  A          *)
(* JavaScript object with string keys is a sequence of <<key, value>>      *)
(* pairs in insertion order (the order Object.keys reports); only own      *)
(* properties are modelled, and no key of the model is integer-like.       *)
(*                                                                         *)
(* Spec and LiveSpec run the two effects with the name-index loader,       *)
(* LoadSpec runs them with all three loaders from one opening location,    *)
(* and PureSpec applies the codec and the two table builders to bounded    *)
(* inputs.                                                                 *)
(***************************************************************************)
EXTENDS Integers, Sequences, FiniteSets, TLC

(***************************************************************************)
(* Strings                                                                 *)
(***************************************************************************)
\* the value `undefined`: a one-element sequence that is no string
UNDEF == <<"<undefined>">>

s_t == <<"t">>
s_k == <<"k">>
s_v == <<"v">>
s_id == <<"i", "d">>
s_tt == <<"t", "t">>
s_cc == <<"c", "c">>
s_inc == <<"i", "n", "c">>
s_brands == <<"b", "r", "a", "n", "d", "s">>
s_undefined == <<"u", "n", "d", "e", "f", "i", "n", "e", "d">>

\* characters encodeURIComponent leaves alone (the part of A-Z a-z 0-9 the model uses)
Unreserved ==
  {"a", "b", "c", "d", "e", "f", "i", "k", "m", "n", "o", "r", "s", "t", "u",
   "v", "x", "y", "z", "A", "F", "0", "1", "2", "3", "5", "6", "D"}

\* the escape encodeURIComponent writes for a reserved character
HexOf(c) ==
  CASE c = " " -> <<"2", "0">>
    [] c = "#" -> <<"2", "3">>
    [] c = "%" -> <<"2", "5">>
    [] c = "&" -> <<"2", "6">>
    [] c = "/" -> <<"2", "F">>
    [] c = "=" -> <<"3", "D">>
    [] c = "?" -> <<"3", "F">>

Reserved == {" ", "#", "%", "&", "/", "=", "?"}

\* the escapes decodeURIComponent understands: those above, and %41 for "A"
HexCodes == {HexOf(c) : c \in Reserved} \cup {<<"4", "1">>}

CharOf(h) == IF h = <<"4", "1">> THEN "A" ELSE CHOOSE c \in Reserved : HexOf(c) = h

RECURSIVE encodeURIComponent(_)
encodeURIComponent(s) ==
  IF s = UNDEF THEN s_undefined
  ELSE IF s = <<>> THEN <<>>
  ELSE (IF Head(s) \in Unreserved THEN <<Head(s)>> ELSE <<"%">> \o HexOf(Head(s)))
       \o encodeURIComponent(Tail(s))

\* decodeURIComponent throws URIError on a malformed escape
RECURSIVE Decodable(_)
Decodable(s) ==
  IF s = <<>> THEN TRUE
  ELSE IF Head(s) = "%"
       THEN Len(s) >= 3 /\ SubSeq(s, 2, 3) \in HexCodes /\ Decodable(SubSeq(s, 4, Len(s)))
       ELSE Decodable(Tail(s))

RECURSIVE decodeURIComponent(_)
decodeURIComponent(s) ==
  IF s = <<>> THEN <<>>
  ELSE IF Head(s) = "%"
       THEN <<CharOf(SubSeq(s, 2, 3))>> \o decodeURIComponent(SubSeq(s, 4, Len(s)))
       ELSE <<Head(s)>> \o decodeURIComponent(Tail(s))

\* String.prototype.split(sep): "" splits into one empty string
RECURSIVE SplitAcc(_, _, _, _)
SplitAcc(s, sep, cur, acc) ==
  IF s = <<>> THEN Append(acc, cur)
  ELSE IF Head(s) = sep THEN SplitAcc(Tail(s), sep, <<>>, Append(acc, cur))
  ELSE SplitAcc(Tail(s), sep, Append(cur, Head(s)), acc)

Split(s, sep) == SplitAcc(s, sep, <<>>, <<>>)

\* String.prototype.split(sep, limit)
SplitLimit(s, sep, limit) ==
  LET all == Split(s, sep)
  IN  SubSeq(all, 1, IF Len(all) < limit THEN Len(all) ELSE limit)

\* Array.prototype.join(sep)
RECURSIVE Join(_, _)
Join(strs, sep) ==
  IF strs = <<>> THEN <<>>
  ELSE IF Len(strs) = 1 THEN strs[1]
  ELSE strs[1] \o <<sep>> \o Join(Tail(strs), sep)

\* arr[i] of a JavaScript array, 0-based: undefined past the end
At(arr, i) == IF i + 1 <= Len(arr) THEN arr[i + 1] ELSE UNDEF

(***************************************************************************)
(* Objects                                                                 *)
(***************************************************************************)
HasKey(obj, key) == \E i \in 1..Len(obj) : obj[i][1] = key

\* obj[key]
ObjGet(obj, key) ==
  IF HasKey(obj, key) THEN obj[CHOOSE i \in 1..Len(obj) : obj[i][1] = key][2] ELSE UNDEF

\* obj[key] = val: an existing key keeps its place, a new one goes last
ObjSet(obj, key, val) ==
  IF HasKey(obj, key)
  THEN [i \in 1..Len(obj) |-> IF obj[i][1] = key THEN <<key, val>> ELSE obj[i]]
  ELSE Append(obj, <<key, val>>)

\* delete obj[key]
ObjDelete(obj, key) == SelectSeq(obj, LAMBDA p : p[1] # key)

\* JavaScript truthiness of a string-or-undefined value
Truthy(val) == val # UNDEF /\ val # <<>>

(***************************************************************************)
(* Query-string codec                                                      *)
(***************************************************************************)
\* the loop of lines 203-205: drop the leading run of '?' and '#'
RECURSIVE StripLead(_)
StripLead(str) ==
  IF str # <<>> /\ Head(str) \in {"?", "#"} THEN StripLead(Tail(str)) ELSE str

PairCounts_FromTwoParts(parts) == Len(parts) >= 2
\* line 209: a pair counts when splitting it on '=' gives exactly two parts
PairCounts(parts) == Len(parts) = 2

\* stringQs throws when it has to decode a malformed value
stringQsThrows(str) ==
  LET pairs == Split(StripLead(str), "&")
  IN  \E i \in 1..Len(pairs) :
        LET parts == Split(pairs[i], "=")
        IN  PairCounts(parts) /\ ~Decodable(parts[2])

RECURSIVE QsReduce(_, _)
QsReduce(obj, pairs) ==
  IF pairs = <<>> THEN obj
  ELSE LET parts == Split(Head(pairs), "=")
       IN  QsReduce(IF PairCounts(parts)
                    THEN ObjSet(obj, parts[1], decodeURIComponent(parts[2]))
                    ELSE obj,
                    Tail(pairs))

stringQs(str) == QsReduce(<<>>, Split(StripLead(str), "&"))

qsString(obj) ==
  Join([i \in 1..Len(obj) |->
          encodeURIComponent(obj[i][1]) \o <<"=">> \o encodeURIComponent(obj[i][2])],
       "&")

(***************************************************************************)
(* Name-index loader (useNsi)                                              *)
(***************************************************************************)
\* useState({}): the data before the fetch resolves has no `id` and no `path`
EmptyIndex == [built |-> FALSE, path |-> <<>>, id |-> <<>>]

\* the inner loop of lines 155-158: tag each item and enter it under its id
RECURSIVE IndexItems(_, _, _)
IndexItems(byId, tkv, items) ==
  IF items = <<>> THEN byId
  ELSE IndexItems(ObjSet(byId, Head(items).id, [id |-> Head(items).id, tkv |-> tkv]),
                  tkv, Tail(items))

SkipCategory_Never(category) == FALSE
\* line 152: a category whose items is no array is passed over
SkipCategory(category) == ~category.isArray

\* the loop of lines 150-159 over Object.entries(json.nsi)
RECURSIVE BuildIndexFrom(_, _)
BuildIndexFrom(index, entries) ==
  IF entries = <<>> THEN index
  ELSE LET tkv == Head(entries)[1]
           category == Head(entries)[2]
           tagged == [i \in 1..Len(category.items) |->
                        [id |-> category.items[i].id, tkv |-> tkv]]
       IN  BuildIndexFrom(
             IF SkipCategory(category) THEN index
             ELSE [index EXCEPT !.path = ObjSet(index.path, tkv, tagged),
                                !.id = IndexItems(index.id, tkv, category.items)],
             Tail(entries))

BuildIndex(nsi) == BuildIndexFrom([built |-> TRUE, path |-> <<>>, id |-> <<>>], nsi)

(***************************************************************************)
(* Icon-table loader (useTaginfo) and the plain loader (useFetch)          *)
(***************************************************************************)
TagSkipped_ByIconOnly(tag) == ~Truthy(tag.icon_url)
\* line 183: a tag without an icon_url or without a key is passed over
TagSkipped(tag) == ~Truthy(tag.icon_url) \/ ~Truthy(tag.key)

\* lines 185-188: the key alone, or key + '/' + value when there is a value
IconKey(tag) == IF Truthy(tag.value) THEN tag.key \o <<"/">> \o tag.value ELSE tag.key

\* the loop of lines 182-190 over json.tags
RECURSIVE IconsFrom(_, _)
IconsFrom(icons, tags) ==
  IF tags = <<>> THEN icons
  ELSE IconsFrom(IF TagSkipped(Head(tags)) THEN icons
                 ELSE ObjSet(icons, IconKey(Head(tags)), Head(tags).icon_url),
                 Tail(tags))

BuildIcons(tags) == IconsFrom(<<>>, tags)

\* useState of lines 124-125, 141-142 and 172-173: empty data, loading true
NewLoader == [phase |-> "idle", data |-> <<>>, loading |-> TRUE]

\* the three URLs of lines 11-15
Urls == {"INDEX", "WIKIDATA", "TAGINFO"}

FetchEffectRuns_EveryRender(first) == TRUE
\* the dependency array [] of lines 134, 165 and 196: the effect that calls
\* fetchUrl runs after the first render only
FetchEffectRuns(first) == first

(***************************************************************************)
(* The two effects of AppContextProvider                                   *)
(***************************************************************************)
\* lines 41-42: an id in the query cannot be looked up while the index loads
AwaitIndex_NoWait(itemID, loading) == FALSE

AwaitIndex(itemID, loading) == Truthy(itemID) /\ loading

\* lines 44-45: index.id[itemID] is an item
ItemFound(idx, itemID) == Truthy(itemID) /\ HasKey(idx.id, itemID)

ResolveParams_KeyAsValue(parsed, tkv) ==
  LET parts == SplitLimit(tkv, "/", 3)
  IN  ObjDelete(ObjSet(ObjSet(ObjSet(parsed, s_t, At(parts, 0)),
                              s_k, At(parts, 1)),
                       s_v, At(parts, 1)),
                s_id)
\* lines 46-53: t, k, v from the item's tkv, id dropped
ResolveParams(parsed, tkv) ==
  LET parts == SplitLimit(tkv, "/", 3)
  IN  ObjDelete(ObjSet(ObjSet(ObjSet(parsed, s_t, At(parts, 0)),
                              s_k, At(parts, 1)),
                       s_v, At(parts, 2)),
                s_id)

\* lines 35 and 52: the hash moves to the item only when the id resolved
TargetHash_FromAnyId(found, itemID, locHash) ==
  IF Truthy(itemID) THEN <<"#">> \o itemID ELSE locHash

TargetHash(found, itemID, locHash) == IF found THEN <<"#">> \o itemID ELSE locHash

\* line 62
ShouldCommit(hsh, newHash, oldSearch, newSearch) ==
  hsh # newHash \/ oldSearch # newSearch

\* inbound effect, lines 34-68: location -> params/hash
InboundEffect(loc, prm, hsh, loading, idx) ==
  LET parsed == stringQs(loc.search)
      itemID == ObjGet(parsed, s_id)
      found == ItemFound(idx, itemID)
      item == ObjGet(idx.id, itemID)
      newHash == TargetHash(found, itemID, loc.hash)
      newSearch == IF found THEN qsString(ResolveParams(parsed, item.tkv)) ELSE loc.search
      oldSearch == <<"?">> \o qsString(prm)
      keep(kind) == [kind |-> kind, hash |-> hsh, params |-> prm]
  IN  IF stringQsThrows(loc.search) THEN keep("throw")
      ELSE IF AwaitIndex(itemID, loading) THEN keep("abort")
      ELSE IF Truthy(itemID) /\ ~idx.built THEN keep("throw")
      ELSE IF ShouldCommit(hsh, newHash, oldSearch, newSearch)
           THEN [kind |-> "commit", hash |-> newHash, params |-> stringQs(newSearch)]
           ELSE keep("same")

KeyOrder_Swapped == <<s_k, s_t, s_v, s_id, s_tt, s_cc, s_inc>>

\* line 78
KeyOrder == <<s_t, s_k, s_v, s_id, s_tt, s_cc, s_inc>>

\* the forEach of lines 77-84
RECURSIVE OrderInto(_, _, _)
OrderInto(newParams, prm, keys) ==
  IF keys = <<>> THEN newParams
  ELSE LET key == Head(keys)
       IN  OrderInto(IF Truthy(ObjGet(prm, key)) THEN ObjSet(newParams, key, ObjGet(prm, key))
                     ELSE IF key = s_t THEN ObjSet(newParams, key, s_brands)
                     ELSE newParams,
                     prm, Tail(keys))

OrderedParams(prm) == OrderInto(<<>>, prm, KeyOrder)

\* line 86
OutboundSearch_NoMark(prm) == qsString(OrderedParams(prm))

OutboundSearch(prm) == <<"?">> \o qsString(OrderedParams(prm))

ShouldNavigate_SearchOnly(didChange, newSearch, newHash, loc) ==
  ~didChange /\ newSearch # loc.search
\* line 90: && binds tighter than ||
ShouldNavigate(didChange, newSearch, newHash, loc) ==
  (~didChange /\ newSearch # loc.search) \/ newHash # loc.hash

\* line 74
OutboundWaits_Never(loading) == FALSE

OutboundWaits(loading) == loading

\* outbound effect, lines 73-95: params/hash -> location
OutboundEffect(loc, prm, hsh, loading, didChange) ==
  LET newSearch == OutboundSearch(prm)
      newHash == hsh
  IN  IF OutboundWaits(loading) THEN [nav |-> FALSE, to |-> <<>>]
      ELSE IF ShouldNavigate(didChange, newSearch, newHash, loc)
           THEN [nav |-> TRUE, to |-> newSearch \o newHash]
           ELSE [nav |-> FALSE, to |-> <<>>]

\* index of the first occurrence of c in s, 0 if none
FirstIndex(s, c) ==
  IF \E i \in 1..Len(s) : s[i] = c
  THEN CHOOSE i \in 1..Len(s) : s[i] = c /\ \A j \in 1..(i - 1) : s[j] # c
  ELSE 0

\* navigate(to, {replace: true}): the router splits what follows the pathname
\* at the first '#' into the hash and, before it, at the first '?' into the search
ParsePath(to) ==
  LET h == FirstIndex(to, "#")
      beforeHash == IF h > 0 THEN SubSeq(to, 1, h - 1) ELSE to
      q == FirstIndex(beforeHash, "?")
  IN  [search |-> IF q > 0 THEN SubSeq(beforeHash, q, Len(beforeHash)) ELSE <<>>,
       hash |-> IF h > 0 THEN SubSeq(to, h, Len(to)) ELSE <<>>]

(***************************************************************************)
(* Inputs                                                                  *)
(***************************************************************************)
\* how many location changes and setter calls from outside the provider a run has
MaxExt == 1

Loc(search, hash) == [search |-> search, hash |-> hash]

Item(id) == [id |-> id]

\* json.nsi of the fetched index, as Object.entries lists it
NsiA ==
  << <<<<"a", "m", "e", "n", "i", "t", "y", "/", "c", "a", "f", "e", "/", "F", "o", "o">>, [isArray |-> TRUE, items |-> <<Item(<<"a", "1">>)>>]>>,
     <<<<"b", "a", "d", "/", "c", "a", "t">>, [isArray |-> FALSE, items |-> <<>>]>>,
     <<<<"s", "h", "o", "p", "/", "b", "a", "k", "e", "r", "y">>, [isArray |-> TRUE, items |-> <<Item(<<"b", "2">>)>>]>> >>

NsiB ==
  << <<<<"b", "r", "a", "n", "d", "s", "/", "a", "m", "e", "n", "i", "t", "y", "/", "c", "a", "f", "e", "/", "x">>,
       [isArray |-> TRUE, items |-> <<Item(<<"b", "2">>), Item(<<"a", "1">>)>>]>>,
     <<<<"s", "h", "o", "p", "/", "b", "a", "k", "e", "r", "y">>, [isArray |-> TRUE, items |-> <<Item(<<"b", "2">>)>>]>> >>

NsiSources == {NsiA, NsiB}

\* the locations the page can be opened at
InitLocations ==
  { Loc(<<>>, <<>>),
    Loc(<<"?", "i", "d", "=", "a", "1">>, <<>>),
    Loc(<<"?", "i", "d", "=", "a", "1">>, <<"#", "z", "z">>),
    Loc(<<"?", "i", "d", "=", "a", "1", "&", "c", "c", "=", "u", "s">>, <<"#", "a", "1">>),
    Loc(<<"?", "i", "d", "=", "a", "1", "&", "a", "/", "b", "=", "1">>, <<>>),
    Loc(<<"?", "i", "d", "=", "z", "z", "&", "v", "=", "x">>, <<"#", "a", "1">>),
    Loc(<<"?", "k", "=", "c", "a", "f", "e", "&", "v", "=", "F", "o", "o">>, <<"#", "a", "1">>),
    Loc(<<"?", "t", "=", "a", "m", "e", "n", "i", "t", "y", "&", "k", "=", "c", "a", "f", "e", "&", "v", "=", "F", "o", "o">>, <<"#", "a", "1">>),
    Loc(<<"?", "v", "=", "%">>, <<>>) }

\* the locations a link, the back button or the address bar leads to
ExtLocations ==
  { Loc(<<>>, <<>>),
    Loc(<<"?", "i", "d", "=", "a", "1">>, <<"#", "a", "1">>),
    Loc(<<"?", "i", "d", "=", "z", "z">>, <<>>),
    Loc(<<"?", "t", "=", "b", "r", "a", "n", "d", "s", "&", "v", "=", "a", "%", "2", "0", "b", "&", "x", "=", "1">>, <<"#", "z", "z">>),
    Loc(<<"?", "t", "=", "b", "r", "a", "n", "d", "s", "&", "t", "t", "=">>, <<>>) }

\* the parameter objects the child components pass to setParams
ExtParams ==
  { << <<s_k, <<"c", "a", "f", "e">>>>, <<s_v, <<"F", "o", "o">>>> >>,
    << <<s_v, <<"a", "/", "b">>>>, <<s_k, <<>> >>, <<s_t, s_brands>>, <<s_inc, <<"1">>>> >>,
    << <<<<"x">>, <<"1">>>>, <<s_cc, <<"u", "s">>>>, <<s_id, <<"z", "z">>>> >>,
    << <<s_t, s_brands>>, <<s_tt, <<>> >> >> }

\* json.tags of the fetched taginfo file
TagsA ==
  << [key |-> <<"s", "h", "o", "p">>, value |-> UNDEF, icon_url |-> <<"u", "1">>],
     [key |-> <<"s", "h", "o", "p">>, value |-> <<"b", "a", "k", "e", "r", "y">>, icon_url |-> <<"u", "2">>],
     [key |-> <<"x">>, value |-> UNDEF, icon_url |-> UNDEF] >>

\* the parsed wikidata file
WikiA == << <<<<"w", "i", "k", "i", "d", "a", "t", "a">>, <<"Q", "1">>>> >>

\* the hashes the child components pass to setHash
ExtHashes == {<<>>, <<"#", "a", "1">>}

(***************************************************************************)
(* State                                                                   *)
(***************************************************************************)
VARIABLES
  pc,            \* "unmounted", "live", or "crashed" after an effect threw
  location,      \* useLocation(): [search, hash]
  params,        \* useState({})
  hash,          \* useState('')
  index,         \* useNsi data
  indexLoading,  \* useNsi loading
  nsi,           \* where useNsi's fetchUrl is: "idle", "fetching", "dataSet", "done", "failed"
  locDirty,      \* the location object changed since the last render pass
  prmDirty,      \* setParams was called since the last render pass
  last,          \* what the last render pass saw and did
  step,          \* the operation that produced this state
  tick,          \* parity of the number of render passes so far
  waitingFor,    \* the id whose lookup line 42 put off, while nothing outside intervened
  ext,           \* location changes and setter calls from outside so far
  served,        \* what the three URLs answer with: [nsi, tags, wikidata]
  wikiL,         \* useFetch(WIKIDATA): [phase, data, loading]
  tagL,          \* useTaginfo(TAGINFO): [phase, data, loading]
  fetches,       \* number of fetch() calls per URL
  call           \* a helper function applied on its own: [phase, obj, str, out]

vars == <<pc, location, params, hash, index, indexLoading, nsi, locDirty, prmDirty,
          last, step, tick, waitingFor, ext, served, wikiL, tagL, fetches, call>>

wikidata == wikiL.data
wikidataLoading == wikiL.loading
icons == tagL.data
iconsLoading == tagL.loading

\* appState.isLoading, line 102
isLoading == indexLoading \/ iconsLoading \/ wikidataLoading

CallIdle == [phase |-> "idle", obj |-> <<>>, str |-> <<>>, out |-> <<>>]

NoPass ==
  [ranIn |-> FALSE, ranOut |-> FALSE, inKind |-> "skip", didChange |-> FALSE,
   navigated |-> FALSE, loc |-> Loc(<<>>, <<>>), prm |-> <<>>, hsh |-> <<>>,
   loading |-> TRUE]

\* the state of the hooks before the first render
Unmounted ==
  /\ pc = "unmounted"
  /\ params = <<>>
  /\ hash = <<>>
  /\ index = EmptyIndex
  /\ indexLoading = TRUE
  /\ nsi = "idle"
  /\ locDirty = FALSE
  /\ prmDirty = FALSE
  /\ last = NoPass
  /\ step = "init"
  /\ tick = FALSE
  /\ waitingFor = UNDEF
  /\ ext = 0
  /\ wikiL = NewLoader
  /\ tagL = NewLoader
  /\ fetches = [u \in Urls |-> 0]

Init ==
  /\ Unmounted
  /\ location \in InitLocations
  /\ served \in [nsi : NsiSources, tags : {TagsA}, wikidata : {WikiA}]
  /\ call = CallIdle

\* the fetch effects of the three loaders after a render
StartFetches(first) ==
  IF FetchEffectRuns(first) THEN [u \in Urls |-> fetches[u] + 1] ELSE fetches

\* One render of AppContextProvider followed by its effects.  Both effects
\* close over the state of this render and share its _didChangeLocation
\* (line 30); their setState and navigate calls take effect together, in the
\* next render.  An effect that throws does not keep the other effect of the
\* pass from running; with no error boundary the tree is unmounted afterwards.
\* The effects' results are bound with \E so that each is computed once.
Pass(runIn, runOut) ==
  \E inb \in {IF runIn THEN InboundEffect(location, params, hash, indexLoading, index)
              ELSE [kind |-> "skip", hash |-> hash, params |-> params]} :
    \E outb \in {IF runOut
                 THEN OutboundEffect(location, params, hash, indexLoading, inb.kind = "commit")
                 ELSE [nav |-> FALSE, to |-> <<>>]} :
      /\ params' = inb.params
      /\ hash' = inb.hash
      /\ location' = IF outb.nav THEN ParsePath(outb.to) ELSE location
      /\ prmDirty' = (inb.kind = "commit")
      /\ locDirty' = outb.nav
      /\ pc' = IF inb.kind = "throw" THEN "crashed" ELSE "live"
      /\ last' = [ranIn |-> runIn, ranOut |-> runOut, inKind |-> inb.kind,
                  didChange |-> (inb.kind = "commit"), navigated |-> outb.nav,
                  loc |-> location, prm |-> params, hsh |-> hash,
                  loading |-> indexLoading]
      /\ step' = "render"
      /\ tick' = ~tick
      /\ waitingFor' = IF inb.kind = "abort"
                       THEN ObjGet(stringQs(location.search), s_id)
                       ELSE waitingFor

\* first render: every effect runs, the loaders' effects start their fetches
Mount ==
  /\ pc = "unmounted"
  /\ Pass(TRUE, TRUE)
  /\ nsi' = "fetching"
  /\ wikiL' = [wikiL EXCEPT !.phase = "fetching"]
  /\ tagL' = [tagL EXCEPT !.phase = "fetching"]
  /\ fetches' = StartFetches(TRUE)
  /\ UNCHANGED <<index, indexLoading, ext, served, call>>

\* dependency arrays of lines 68 and 95, compared with the previous render
InboundDepsChanged == locDirty \/ indexLoading # last.loading
OutboundDepsChanged == prmDirty \/ hash # last.hsh \/ indexLoading # last.loading

Render ==
  /\ pc = "live"
  /\ (InboundDepsChanged \/ OutboundDepsChanged)
  /\ Pass(InboundDepsChanged, OutboundDepsChanged)
  /\ fetches' = StartFetches(FALSE)
  /\ UNCHANGED <<index, indexLoading, nsi, ext, served, wikiL, tagL, call>>

NsiSetData_KeepsFirstData ==
  /\ pc = "live"
  /\ nsi = "fetching"
  /\ index' = index
  /\ nsi' = "dataSet"
  /\ step' = "nsiSetData"
  /\ UNCHANGED <<pc, location, params, hash, indexLoading, locDirty, prmDirty,
                 last, tick, waitingFor, ext, served, wikiL, tagL, fetches, call>>
\* useNsi.fetchUrl up to setData(index), line 161
NsiSetData ==
  /\ pc = "live"
  /\ nsi = "fetching"
  /\ index' = BuildIndex(served.nsi)
  /\ nsi' = "dataSet"
  /\ step' = "nsiSetData"
  /\ UNCHANGED <<pc, location, params, hash, indexLoading, locDirty, prmDirty,
                 last, tick, waitingFor, ext, served, wikiL, tagL, fetches, call>>

\* setLoading(false), line 162
NsiSetLoading ==
  /\ pc = "live"
  /\ nsi = "dataSet"
  /\ indexLoading' = FALSE
  /\ nsi' = "done"
  /\ step' = "nsiSetLoading"
  /\ UNCHANGED <<pc, location, params, hash, index, locDirty, prmDirty,
                 last, tick, waitingFor, ext, served, wikiL, tagL, fetches, call>>

NsiFail_ClearsLoading ==
  /\ pc = "live"
  /\ nsi = "fetching"
  /\ nsi' = "failed"
  /\ indexLoading' = FALSE
  /\ step' = "nsiFail"
  /\ UNCHANGED <<pc, location, params, hash, index, locDirty, prmDirty,
                 last, tick, waitingFor, ext, served, wikiL, tagL, fetches, call>>
\* fetch or response.json() rejects (lines 145-146): nothing catches it
NsiFail ==
  /\ pc = "live"
  /\ nsi = "fetching"
  /\ nsi' = "failed"
  /\ step' = "nsiFail"
  /\ UNCHANGED <<pc, location, params, hash, index, indexLoading, locDirty, prmDirty,
                 last, tick, waitingFor, ext, served, wikiL, tagL, fetches, call>>

\* the user follows a link or goes back: the router hands out a new location
ExtNavigate ==
  /\ pc = "live"
  /\ ext < MaxExt
  /\ \E l \in ExtLocations : location' = l
  /\ locDirty' = TRUE
  /\ ext' = ext + 1
  /\ step' = "extNavigate"
  /\ waitingFor' = UNDEF
  /\ UNCHANGED <<pc, params, hash, index, indexLoading, nsi, prmDirty, last, tick,
                 served, wikiL, tagL, fetches, call>>

\* a child component calls appState.setParams (line 104)
SetParams ==
  /\ pc = "live"
  /\ ext < MaxExt
  /\ \E p \in ExtParams : params' = p
  /\ prmDirty' = TRUE
  /\ ext' = ext + 1
  /\ step' = "setParams"
  /\ waitingFor' = UNDEF
  /\ UNCHANGED <<pc, location, hash, index, indexLoading, nsi, locDirty, last, tick,
                 served, wikiL, tagL, fetches, call>>

\* a child component calls appState.setHash (line 106)
SetHash ==
  /\ pc = "live"
  /\ ext < MaxExt
  /\ \E h \in ExtHashes : h # hash /\ hash' = h
  /\ ext' = ext + 1
  /\ step' = "setHash"
  /\ waitingFor' = UNDEF
  /\ UNCHANGED <<pc, location, params, index, indexLoading, nsi, locDirty, prmDirty,
                 last, tick, served, wikiL, tagL, fetches, call>>

\* what the sync effects and the name-index loader read and write
syncVars == <<pc, location, params, hash, index, indexLoading, nsi, locDirty, prmDirty,
              last, tick, waitingFor, ext, served>>

\* useFetch.fetchUrl up to setData(json), line 130
WikiSetData ==
  /\ pc = "live"
  /\ wikiL.phase = "fetching"
  /\ wikiL' = [wikiL EXCEPT !.phase = "dataSet", !.data = served.wikidata]
  /\ step' = "wikiSetData"
  /\ UNCHANGED <<syncVars, tagL, fetches, call>>

WikiSetLoading_BeforeData ==
  /\ pc = "live"
  /\ wikiL.phase \in {"fetching", "dataSet"}
  /\ wikiL' = [wikiL EXCEPT !.phase = "done", !.loading = FALSE]
  /\ step' = "wikiSetLoading"
  /\ UNCHANGED <<syncVars, tagL, fetches, call>>
\* setLoading(false), line 131
WikiSetLoading ==
  /\ pc = "live"
  /\ wikiL.phase = "dataSet"
  /\ wikiL' = [wikiL EXCEPT !.phase = "done", !.loading = FALSE]
  /\ step' = "wikiSetLoading"
  /\ UNCHANGED <<syncVars, tagL, fetches, call>>

\* fetch or response.json() rejects (lines 128-129): nothing catches it
WikiFail ==
  /\ pc = "live"
  /\ wikiL.phase = "fetching"
  /\ wikiL' = [wikiL EXCEPT !.phase = "failed"]
  /\ step' = "wikiFail"
  /\ UNCHANGED <<syncVars, tagL, fetches, call>>

\* useTaginfo.fetchUrl up to setData(icons), line 192
TagSetData ==
  /\ pc = "live"
  /\ tagL.phase = "fetching"
  /\ tagL' = [tagL EXCEPT !.phase = "dataSet", !.data = BuildIcons(served.tags)]
  /\ step' = "tagSetData"
  /\ UNCHANGED <<syncVars, wikiL, fetches, call>>

\* setLoading(false), line 193
TagSetLoading ==
  /\ pc = "live"
  /\ tagL.phase = "dataSet"
  /\ tagL' = [tagL EXCEPT !.phase = "done", !.loading = FALSE]
  /\ step' = "tagSetLoading"
  /\ UNCHANGED <<syncVars, wikiL, fetches, call>>

\* fetch, response.json() or the loop over json.tags throws (lines 176-190)
TagFail ==
  /\ pc = "live"
  /\ tagL.phase = "fetching"
  /\ tagL' = [tagL EXCEPT !.phase = "failed"]
  /\ step' = "tagFail"
  /\ UNCHANGED <<syncVars, wikiL, fetches, call>>

\* The effects and the name-index loader.  Nothing they read depends on the
\* other two loaders, so this specification leaves those two fetches pending.
Next ==
  \/ Mount
  \/ Render
  \/ NsiSetData
  \/ NsiSetLoading
  \/ NsiFail
  \/ ExtNavigate
  \/ SetParams
  \/ SetHash

Spec == Init /\ [][Next]_vars

\* a pass is due: some dependency of an effect changed since the last render
PassPending == pc = "live" /\ (InboundDepsChanged \/ OutboundDepsChanged)

\* the step of Render, told by its guard and the pass count
RenderStep == PassPending /\ tick' = ~tick

\* the renderer flushes the effects after every render: a due pass happens
LiveSpec == Spec /\ WF_tick(RenderStep)

\* the page opened at one location, with all three loaders running
LoadLocations == { Loc(<<"?", "i", "d", "=", "a", "1">>, <<>>) }

LoadInit ==
  /\ Unmounted
  /\ location \in LoadLocations
  /\ served = [nsi |-> NsiA, tags |-> TagsA, wikidata |-> WikiA]
  /\ call = CallIdle

LoadNext ==
  \/ Mount
  \/ Render
  \/ NsiSetData
  \/ NsiSetLoading
  \/ NsiFail
  \/ WikiSetData
  \/ WikiSetLoading
  \/ WikiFail
  \/ TagSetData
  \/ TagSetLoading
  \/ TagFail
  \/ ExtNavigate
  \/ SetParams
  \/ SetHash

LoadSpec == LoadInit /\ [][LoadNext]_vars

(***************************************************************************)
(* The helper functions on their own, applied to bounded inputs            *)
(***************************************************************************)
MaxPairs == 2
MaxSegs == 3

\* keys and values free of raw '=' and '&'
CodecKeys == {<<"t">>, <<"a", "/", "b">>, <<>>}
CodecVals == {<<>>, <<"x">>, <<"a", " ", "b">>, <<"?", "#", "%", "/">>}

\* the parameter maps of up to MaxPairs pairs with distinct keys
CodecObjects ==
  UNION { { obj \in [1..n -> CodecKeys \X CodecVals] :
              \A i, j \in 1..n : obj[i][1] = obj[j][1] => i = j } : n \in 0..MaxPairs }

\* what a query string is made of: a leading run, then segments joined by '&'
CodecLeads == {<<>>, <<"?">>, <<"#">>, <<"?", "#", "?">>}
CodecSegments ==
  {<<>>, <<"k">>, <<"k", "=", "v">>, <<"k", "=">>, <<"=", "v">>, <<"k", "=", "a", "%", "2", "0", "b">>, <<"k", "=", "v", "=", "w">>, <<"v", "=", "%", "4", "1">>, <<"v", "=", "%">>}

CodecStrings ==
  { lead \o Join(segs, "&") :
      lead \in CodecLeads,
      segs \in UNION { [1..n -> CodecSegments] : n \in 1..MaxSegs } }

MaxCats == 3
MaxTags == 3

\* category keys of two, three and four segments
IndexKeys == {<<"s", "h", "o", "p", "/", "b", "a", "k", "e", "r", "y">>, <<"a", "m", "e", "n", "i", "t", "y", "/", "c", "a", "f", "e", "/", "F", "o", "o">>, <<"b", "r", "a", "n", "d", "s", "/", "a", "m", "e", "n", "i", "t", "y", "/", "c", "a", "f", "e", "/", "x">>}

\* a category: items that is no array (or absent), or an array of items
IndexCategories ==
  { [isArray |-> FALSE, items |-> <<>>] }
    \cup { [isArray |-> TRUE, items |-> items] :
             items \in { <<>>, <<Item(<<"a", "1">>)>>, <<Item(<<"b", "2">>), Item(<<"a", "1">>)>>,
                         <<Item(<<"a", "1">>), Item(<<"a", "1">>)>> } }

\* json.nsi with up to MaxCats categories under distinct keys
IndexBodies ==
  UNION { { nsiOf \in [1..n -> IndexKeys \X IndexCategories] :
              \A i, j \in 1..n : nsiOf[i][1] = nsiOf[j][1] => i = j } : n \in 0..MaxCats }

TagChoices ==
  { [key |-> <<"s", "h", "o", "p">>, value |-> UNDEF, icon_url |-> <<"u", "1">>],
    [key |-> <<"s", "h", "o", "p">>, value |-> <<"b", "a", "k", "e", "r", "y">>, icon_url |-> <<"u", "2">>],
    [key |-> <<"x">>, value |-> UNDEF, icon_url |-> UNDEF],
    [key |-> <<"s", "h", "o", "p", "/", "b", "a", "k", "e", "r", "y">>, value |-> <<>>, icon_url |-> <<"u", "3">>],
    [key |-> <<>>, value |-> <<"b", "a", "k", "e", "r", "y">>, icon_url |-> <<"u", "1">>],
    [key |-> <<"s", "h", "o", "p">>, value |-> <<"b", "a", "k", "e", "r", "y">>, icon_url |-> <<>>] }

\* json.tags with up to MaxTags tags
TagBodies == UNION { [1..n -> TagChoices] : n \in 0..MaxTags }

PureInit ==
  /\ Unmounted
  /\ location = Loc(<<>>, <<>>)
  /\ served = [nsi |-> NsiA, tags |-> TagsA, wikidata |-> WikiA]
  /\ \/ \E obj \in CodecObjects : call = [CallIdle EXCEPT !.phase = "object", !.obj = obj]
     \/ \E str \in CodecStrings : call = [CallIdle EXCEPT !.phase = "string", !.str = str]
     \/ \E nsiOf \in IndexBodies : call = [CallIdle EXCEPT !.phase = "nsi", !.obj = nsiOf]
     \/ \E tags \in TagBodies : call = [CallIdle EXCEPT !.phase = "tags", !.obj = tags]

\* qsString(obj), lines 218-222
CodecEncode ==
  /\ call.phase = "object"
  /\ call' = [call EXCEPT !.phase = "encoded", !.str = qsString(call.obj)]
  /\ UNCHANGED <<syncVars, step, wikiL, tagL, fetches>>

\* stringQs(str), lines 202-214, returns
CodecDecode ==
  /\ call.phase \in {"string", "encoded"}
  /\ ~stringQsThrows(call.str)
  /\ call' = [call EXCEPT !.phase = IF call.phase = "encoded" THEN "roundTrip" ELSE "decoded",
                            !.out = stringQs(call.str)]
  /\ UNCHANGED <<syncVars, step, wikiL, tagL, fetches>>

\* stringQs(str) throws: decodeURIComponent rejects a value, line 210
CodecThrow ==
  /\ call.phase \in {"string", "encoded"}
  /\ stringQsThrows(call.str)
  /\ call' = [call EXCEPT !.phase = "threw"]
  /\ UNCHANGED <<syncVars, step, wikiL, tagL, fetches>>

\* the index built from json.nsi, lines 147-159
IndexBuild ==
  /\ call.phase = "nsi"
  /\ call' = [call EXCEPT !.phase = "index", !.out = BuildIndex(call.obj)]
  /\ UNCHANGED <<syncVars, step, wikiL, tagL, fetches>>

\* the icon table built from json.tags, lines 178-190
IconsBuild ==
  /\ call.phase = "tags"
  /\ call' = [call EXCEPT !.phase = "icons", !.out = BuildIcons(call.obj)]
  /\ UNCHANGED <<syncVars, step, wikiL, tagL, fetches>>

PureNext ==
  \/ CodecEncode
  \/ CodecDecode
  \/ CodecThrow
  \/ IndexBuild
  \/ IconsBuild

PureSpec == PureInit /\ [][PureNext]_vars

(***************************************************************************)
(* Properties                                                              *)
(***************************************************************************)
\* the id the query of a location carries (undefined if none)
IdOf(loc) == ObjGet(stringQs(loc.search), s_id)

\* the last pass ran the inbound effect to its end on a decodable query
InboundRan == last.ranIn /\ ~stringQsThrows(last.loc.search)

\* C1: in a pass in which the inbound effect committed (and so set
\* _didChangeLocation), the outbound effect of that pass does not navigate.
C1_NoNavigationAfterCommit == last.didChange => ~last.navigated

\* C2: the two effects settle: from some point on no pass is due any more, so
\* neither effect changes params, hash or location again.
C2_SyncsSettle == <>[](~PassPending)

\* the lookup of an id was put off, nothing outside has intervened since, and
\* the index has loaded with the id among its keys
Awaited == waitingFor # UNDEF /\ ~indexLoading /\ HasKey(index.id, waitingFor)

\* params hold the item's t, k, v and no id, and the hash is '#<id>'
ResolvedTo(id) ==
  LET parts == SplitLimit(ObjGet(index.id, id).tkv, "/", 3)
  IN  /\ ObjGet(params, s_t) = At(parts, 0)
      /\ ObjGet(params, s_k) = At(parts, 1)
      /\ ObjGet(params, s_v) = At(parts, 2)
      /\ ~HasKey(params, s_id)
      /\ hash = <<"#">> \o id

\* C3: a deferred id is resolved once the index has loaded: params and hash
\* come to hold the item's t, k, v and '#<id>' and keep them for as long as
\* nothing outside changes the location or calls a setter.
C3_DeferredIdResolved == <>[](Awaited => ResolvedTo(waitingFor))

\* the last pass ran the inbound effect with the index loaded on a query
\* whose id is a key of byId
ResolvedPass ==
  /\ step = "render"
  /\ InboundRan
  /\ ~last.loading
  /\ ItemFound(index, IdOf(last.loc))

\* C4: resolving an id commits t, k, v from the item's tkv, drops id, carries
\* every other query parameter through unchanged and sets the hash to '#<id>'.
C4_IdResolution ==
  ResolvedPass =>
    LET query == stringQs(last.loc.search)
        id == IdOf(last.loc)
        parts == SplitLimit(ObjGet(index.id, id).tkv, "/", 3)
    IN  /\ last.inKind = "commit"
        /\ ObjGet(params, s_t) = At(parts, 0)
        /\ ObjGet(params, s_k) = At(parts, 1)
        /\ ObjGet(params, s_v) = At(parts, 2)
        /\ ~HasKey(params, s_id)
        /\ \A i \in 1..Len(query) :
             query[i][1] \notin {s_t, s_k, s_v, s_id} =>
               ObjGet(params, query[i][1]) = query[i][2]
        /\ \A i \in 1..Len(params) :
             params[i][1] \notin {s_t, s_k, s_v} => HasKey(query, params[i][1])
        /\ hash = <<"#">> \o id

\* the last pass ran the inbound effect with the index loaded on a query
\* whose id is no key of byId
UnknownIdPass ==
  /\ step = "render"
  /\ InboundRan
  /\ ~last.loading
  /\ Truthy(IdOf(last.loc))
  /\ ~HasKey(index.id, IdOf(last.loc))

C6_NoNavigationWhileLoading == last.loading => ~last.navigated

C6_Witness ==
  /\ last.ranOut
  /\ last.loading
  /\ last.prm # <<>>
  /\ OutboundSearch(last.prm) # last.loc.search
  /\ last.hsh # last.loc.hash

\* C7: with a non-empty id in the query and the index loading, the inbound
\* effect aborts: params and hash are as before and the flag is not set.
C7_AbortLeavesState ==
  (step = "render" /\ InboundRan /\ last.loading /\ Truthy(IdOf(last.loc))) =>
    /\ last.inKind = "abort"
    /\ params = last.prm
    /\ hash = last.hsh
    /\ ~last.didChange
    /\ ~prmDirty

C7_Witness ==
  /\ step = "render"
  /\ last.inKind = "abort"
  /\ last.loc.hash # last.hsh
  /\ stringQs(last.loc.search) # Append(last.prm, <<s_id, IdOf(last.loc)>>)
  /\ Len(stringQs(last.loc.search)) > 1

\* the keys of a query string, in the order they appear
QueryKeys(str) ==
  LET pairs == Split(str, "&")
  IN  [i \in 1..Len(pairs) |-> Split(pairs[i], "=")[1]]

\* position of a key in t, k, v, id, tt, cc, inc (0 if it is none of them)
Rank(key) ==
  CASE key = s_t -> 1 [] key = s_k -> 2 [] key = s_v -> 3 [] key = s_id -> 4
    [] key = s_tt -> 5 [] key = s_cc -> 6 [] key = s_inc -> 7 [] OTHER -> 0

\* C8: the query string the outbound effect builds has only keys of
\* t, k, v, id, tt, cc, inc, in that order, a key other than t only for a
\* truthy value, and always t, 'brands' by default;
\* {k:'cafe', v:'Foo'} gives 't=brands&k=cafe&v=Foo'.
C8_OutboundQuery ==
  LET str == Tail(OutboundSearch(params))
      keys == QueryKeys(str)
      query == stringQs(str)
  IN  /\ Head(OutboundSearch(params)) = "?"
      /\ \A i \in 1..Len(keys) : Rank(keys[i]) > 0
      /\ \A i, j \in 1..Len(keys) : i < j => Rank(keys[i]) < Rank(keys[j])
      /\ Len(query) = Len(keys)
      /\ \A i \in 1..Len(keys) :
           keys[i] # s_t =>
             Truthy(ObjGet(params, keys[i])) /\ ObjGet(query, keys[i]) = ObjGet(params, keys[i])
      /\ keys[1] = s_t
      /\ ObjGet(query, s_t) = IF Truthy(ObjGet(params, s_t)) THEN ObjGet(params, s_t) ELSE s_brands
      /\ (params = << <<s_k, <<"c", "a", "f", "e">>>>, <<s_v, <<"F", "o", "o">>>> >> =>
            str = <<"t", "=", "b", "r", "a", "n", "d", "s", "&", "k", "=", "c", "a", "f", "e", "&", "v", "=", "F", "o", "o">>)

C8_Witness ==
  /\ step = "render"
  /\ last.navigated
  /\ last.prm = << <<s_k, <<"c", "a", "f", "e">>>>, <<s_v, <<"F", "o", "o">>>> >>
  /\ location.search = <<"?", "t", "=", "b", "r", "a", "n", "d", "s", "&", "k", "=", "c", "a", "f", "e", "&", "v", "=", "F", "o", "o">>

\* the location after the outbound effect has run on it
AfterOutbound(loc, prm, hsh, didChange) ==
  LET out == OutboundEffect(loc, prm, hsh, FALSE, didChange)
  IN  IF out.nav THEN ParsePath(out.to) ELSE loc

\* C9: once the outbound effect has run and its navigation is applied, running
\* it again with the same params and hash does not navigate.
C9_OutboundIdempotent ==
  \A first, second \in BOOLEAN :
    LET out == OutboundEffect(location, params, hash, FALSE, first)
        applied == AfterOutbound(location, params, hash, first)
    IN  (out.nav \/ ~first) =>
          ~OutboundEffect(applied, params, hash, FALSE, second).nav

C9_Witness ==
  /\ step = "render"
  /\ last.navigated
  /\ params = last.prm
  /\ hash = last.hsh
  /\ location # last.loc
  /\ ~OutboundEffect(location, params, hash, FALSE, FALSE).nav

\* C10: the inbound effect commits only if the hash or the query it computed
\* differs from what is stored: a commit changes hash or params.
C10_CommitOnlyOnChange ==
  (step = "render" /\ last.inKind = "commit") => (hash # last.hsh \/ params # last.prm)

\* C11: encoding a parameter map whose keys and values hold no raw '=' or '&'
\* and decoding the result gives the map back: stringQs(qsString(P)) = P
C11_CodecRoundTrip == call.phase = "roundTrip" => call.out = call.obj

CountOf(str, c) == Cardinality({i \in 1..Len(str) : str[i] = c})

\* the length of the leading run of '?' and '#'
LeadLen(str) ==
  CHOOSE n \in 0..Len(str) :
    /\ \A i \in 1..n : str[i] \in {"?", "#"}
    /\ n < Len(str) => str[n + 1] \notin {"?", "#"}

\* the k-th '&'-separated segment of str, k in 1..CountOf(str, "&") + 1
SegmentOf(str, k) ==
  LET amps == {i \in 1..Len(str) : str[i] = "&"}
      bound(j) == IF j = 0 THEN 0
                  ELSE IF j = Cardinality(amps) + 1 THEN Len(str) + 1
                  ELSE CHOOSE i \in amps : Cardinality({h \in amps : h < i}) = j - 1
  IN  SubSeq(str, bound(k - 1) + 1, bound(k) - 1)

KeyPart(seg) == SubSeq(seg, 1, (CHOOSE i \in 1..Len(seg) : seg[i] = "=") - 1)
ValuePart(seg) == SubSeq(seg, (CHOOSE i \in 1..Len(seg) : seg[i] = "=") + 1, Len(seg))

\* C12: stringQs drops the whole leading run of '?' and '#' and splits the
\* rest on '&'; the result has a key exactly for the segments with one '=',
\* under the text before it, with the percent-decoded text after it (empty
\* for an empty value); other segments add nothing, and of two segments with
\* the same key the later gives the value
C12_DecodeSegments ==
  call.phase = "decoded" =>
    LET rest == SubSeq(call.str, LeadLen(call.str) + 1, Len(call.str))
        n == CountOf(rest, "&") + 1
        counted == {k \in 1..n : CountOf(SegmentOf(rest, k), "=") = 1}
    IN  /\ \A i, j \in 1..Len(call.out) : call.out[i][1] = call.out[j][1] => i = j
        /\ \A i \in 1..Len(call.out) :
             \E k \in counted : KeyPart(SegmentOf(rest, k)) = call.out[i][1]
        /\ \A k \in counted :
             /\ HasKey(call.out, KeyPart(SegmentOf(rest, k)))
             /\ (\A h \in counted : KeyPart(SegmentOf(rest, h)) = KeyPart(SegmentOf(rest, k)) => h <= k)
                  => ObjGet(call.out, KeyPart(SegmentOf(rest, k)))
                       = decodeURIComponent(ValuePart(SegmentOf(rest, k)))

C12_Witness ==
  /\ call.phase = "decoded"
  /\ call.str = <<"?", "#", "?", "k", "=", "v", "&", "k", "=", "v", "=", "w", "&", "k", "=", "a", "%", "2", "0", "b">>
  /\ call.out = << <<<<"k">>, <<"a", " ", "b">>>> >>

\* C13: in the index built from any category mapping, every record of byId
\* is filed under its own id, carries a tkv that is a key of byPath, and is
\* an element of that byPath sequence and of no other (also when its id
\* occurs in several categories); byPath[tkv] lists the category's items in
\* source order; a category whose items is no array is in neither table
C13_IndexConsistent ==
  call.phase = "index" =>
    LET byPath == call.out.path
        byId == call.out.id
    IN  /\ \A i \in 1..Len(byId) :
             LET rec == byId[i][2]
             IN  /\ rec.id = byId[i][1]
                 /\ HasKey(byPath, rec.tkv)
                 /\ \A p \in 1..Len(byPath) :
                      (\E j \in 1..Len(byPath[p][2]) : byPath[p][2][j] = rec)
                        <=> byPath[p][1] = rec.tkv
        /\ \A c \in 1..Len(call.obj) :
             LET tkv == call.obj[c][1]
                 category == call.obj[c][2]
             IN  IF category.isArray
                 THEN /\ HasKey(byPath, tkv)
                      /\ Len(ObjGet(byPath, tkv)) = Len(category.items)
                      /\ \A j \in 1..Len(category.items) :
                           ObjGet(byPath, tkv)[j].id = category.items[j].id
                 ELSE /\ ~HasKey(byPath, tkv)
                      /\ \A i \in 1..Len(byId) : byId[i][2].tkv # tkv

C13_Witness ==
  /\ call.phase = "index"
  /\ call.obj = << <<<<"a", "m", "e", "n", "i", "t", "y", "/", "c", "a", "f", "e", "/", "F", "o", "o">>, [isArray |-> TRUE, items |-> <<Item(<<"a", "1">>)>>]>>,
                   <<<<"s", "h", "o", "p", "/", "b", "a", "k", "e", "r", "y">>, [isArray |-> FALSE, items |-> <<>>]>>,
                   <<<<"b", "r", "a", "n", "d", "s", "/", "a", "m", "e", "n", "i", "t", "y", "/", "c", "a", "f", "e", "/", "x">>,
                     [isArray |-> TRUE, items |-> <<Item(<<"b", "2">>), Item(<<"a", "1">>)>>]>> >>
  /\ ObjGet(call.out.id, <<"a", "1">>).tkv = <<"b", "r", "a", "n", "d", "s", "/", "a", "m", "e", "n", "i", "t", "y", "/", "c", "a", "f", "e", "/", "x">>
  /\ Len(call.out.path) = 2

NonEmpty(str) == str \notin {UNDEF, <<>>}

\* C14: the icon table built from any tag list has an entry exactly for the
\* tags with a non-empty icon_url and a non-empty key, under the key alone
\* when the value is absent or empty and under key + '/' + value otherwise,
\* and of several tags with the same composite key the last gives the icon
C14_IconTable ==
  call.phase = "icons" =>
    LET tags == call.obj
        table == call.out
        entered == {j \in 1..Len(tags) : NonEmpty(tags[j].icon_url) /\ NonEmpty(tags[j].key)}
        composite(j) == IF NonEmpty(tags[j].value)
                        THEN tags[j].key \o <<"/">> \o tags[j].value
                        ELSE tags[j].key
    IN  /\ \A i, h \in 1..Len(table) : table[i][1] = table[h][1] => i = h
        /\ \A i \in 1..Len(table) : \E j \in entered : composite(j) = table[i][1]
        /\ \A j \in entered :
             /\ HasKey(table, composite(j))
             /\ (\A h \in entered : composite(h) = composite(j) => h <= j)
                  => ObjGet(table, composite(j)) = tags[j].icon_url

\* the tag list of the example: shop with u1, shop=bakery with u2, x without icon
C14_Witness ==
  /\ call.phase = "icons"
  /\ call.obj = TagsA
  /\ call.out = << <<<<"s", "h", "o", "p">>, <<"u", "1">>>>, <<<<"s", "h", "o", "p", "/", "b", "a", "k", "e", "r", "y">>, <<"u", "2">>>> >>

\* a loader whose loading flag is false holds the value made from the response
LoadedMeansData ==
  /\ ~wikidataLoading => (wikidata = served.wikidata /\ wikidata # NewLoader.data)
  /\ ~indexLoading => (index = BuildIndex(served.nsi) /\ index # EmptyIndex)
  /\ ~iconsLoading => (icons = BuildIcons(served.tags) /\ icons # NewLoader.data)

\* C15: each loader's loading flag starts true, goes from true to false at
\* most once and never back; while it is false the loader's data is the
\* parsed or built value, not the initial empty one; and isLoading() is
\* false exactly when all three flags are false
C15_LoadingFlags ==
  /\ <<wikidataLoading, indexLoading, iconsLoading>> = <<TRUE, TRUE, TRUE>>
  /\ [](LoadedMeansData
        /\ (~isLoading <=> (~wikidataLoading /\ ~indexLoading /\ ~iconsLoading)))
  /\ [][/\ ~wikidataLoading => ~wikidataLoading'
        /\ ~indexLoading => ~indexLoading'
        /\ ~iconsLoading => ~iconsLoading']_vars

C15_Witness ==
  /\ ~isLoading
  /\ wikiL.phase = "done" /\ nsi = "done" /\ tagL.phase = "done"
  /\ step = "render"

\* a loader whose fetch or parse failed is still loading, with its first data
FailedKeepsInitial ==
  /\ wikiL.phase = "failed" => (wikidataLoading /\ wikidata = NewLoader.data)
  /\ nsi = "failed" => (indexLoading /\ index = EmptyIndex)
  /\ tagL.phase = "failed" => (iconsLoading /\ icons = NewLoader.data)

\* with the name index failed, no pass navigates and no pass gets past the
\* wait for the index with an id in the location
FailedIndexStopsSync ==
  nsi = "failed" =>
    /\ ~last.navigated
    /\ (InboundRan /\ Truthy(IdOf(last.loc))) => last.inKind = "abort"

\* C16: a dataset whose fetch or parse fails keeps loading true and the
\* initial data for good: nothing retries and nothing records the error; when
\* it is the name index, the outbound effect never navigates and an id in the
\* location is never resolved
C16_FailureSticks ==
  /\ [](FailedKeepsInitial /\ FailedIndexStopsSync)
  /\ [][/\ wikiL.phase = "failed" => wikiL' = wikiL
        /\ nsi = "failed" => <<nsi, index, indexLoading>>' = <<nsi, index, indexLoading>>
        /\ tagL.phase = "failed" => tagL' = tagL]_vars

C16_Witness ==
  /\ nsi = "failed" /\ wikiL.phase = "failed" /\ tagL.phase = "failed"
  /\ step = "render"
  /\ ext > 0
  /\ last.ranIn /\ last.inKind = "abort"
  /\ IdOf(last.loc) = <<"a", "1">> /\ last.loc.hash = <<"#", "a", "1">>

\* C17: each of the three datasets is fetched once per mounted lifetime:
\* whatever renders, location changes, setter calls and loading-flag changes
\* happen, no URL is fetched more than once, and each is fetched at the mount
C17_FetchedOnce ==
  \A u \in Urls : fetches[u] = IF pc = "unmounted" THEN 0 ELSE 1

C17_Witness ==
  /\ \A u \in Urls : fetches[u] = 1
  /\ step = "render"
  /\ ext > 0
  /\ ~isLoading
  /\ last.ranIn /\ last.ranOut /\ last.navigated

\* the index has loaded and neither effect has anything left to do
Quiescent == pc = "live" /\ ~indexLoading /\ ~PassPending

\* no key outside t, k, v, id, tt, cc, inc and no empty value
Canonical(prm) ==
  \A i \in 1..Len(prm) :
    /\ \E j \in 1..Len(KeyOrder) : KeyOrder[j] = prm[i][1]
    /\ prm[i][2] # <<>>

LookupPass ==
  /\ InboundRan
  /\ ~last.loading
  /\ Truthy(IdOf(last.loc))

\* C19: the inbound effect looks an id up in byId only when the index has
\* been built: whenever loading is false the index is the built one, and a
\* pass that performs the lookup reads the built index and does not throw
C19_LookupAfterBuild ==
  /\ ~indexLoading => (index.built /\ index = BuildIndex(served.nsi))
  /\ LookupPass => (~indexLoading /\ last.inKind \in {"commit", "same"})

C19_Witness ==
  /\ step = "render"
  /\ LookupPass
  /\ waitingFor = <<"a", "1">>
  /\ last.inKind = "commit"
  /\ hash = <<"#", "a", "1">>

\* the category key the committed t, k and v spell
CommittedPath ==
  ObjGet(params, s_t) \o <<"/">> \o ObjGet(params, s_k) \o <<"/">> \o ObjGet(params, s_v)

\* the committed t, k, v spell the tkv of the item the last pass resolved, and
\* byPath holds the item under that key
PathLeadsToItem ==
  LET item == ObjGet(index.id, IdOf(last.loc))
  IN  /\ last.inKind = "commit"
      /\ CommittedPath = item.tkv
      /\ HasKey(index.path, CommittedPath)
      /\ \E j \in 1..Len(ObjGet(index.path, CommittedPath)) :
           ObjGet(index.path, CommittedPath)[j] = item

====
